---- MODULE Spec2Model ----
(***************************************************************************)
(* Graph ingestion of an After Effects project export.                     *)
(*                                                                         *)
(* Three ingestion entry points of the repository are modelled, one per    *)
(* value of `mode`:                                                        *)
(*   "ingest_project"        AEProjectGraphIngestion.ingest_project        *)
(*   "upload_graph"          the /upload_graph handler of the navigator    *)
(*   "ingest_project_graph"  the native AddProjectNodes/AddProjectEdges    *)
(* The store is observed through `calls`, the sequence of create-node and  *)
(* create-edge calls issued so far.                                        *)
(*                                                                         *)
(* Numbers: an embedding is a tuple of integers, a cosine similarity is    *)
(* kept exact as the pair (dot, product of the squared norms), and a       *)
(* threshold is counted in tenths (7 is 0.7).                              *)
(***************************************************************************)
EXTENDS Integers, Sequences, FiniteSets, TLC

VARIABLES
    mode,             \* which entry point this process runs
    pc,               \* position of the run
    runs,             \* calls of the entry point made so far on this instance
    file,             \* content of project_json_path / the request body / project_data
    embeddings_map,   \* ingest_project: embed_key -> vector
    stats,            \* GraphStats of the instance / counters of the handler
    calls,            \* create-node and create-edge calls issued to the store
    logged,           \* what the latest step logged at warning or error level
    external_to_uuid, \* upload_graph: external id -> uuid returned by the store
    connections,      \* graph navigator: session ids that hold a client
    result,           \* what the entry point returned (or "raised")
    current_connection_id, \* graph walker: the connection id get_connection keeps
    reply,            \* the tool, the arguments and the result document of the latest traversal
    callers,          \* per caller of the navigator: position, session id named, result set read
    result_sets,      \* store: per store session, the caller whose step set the current result set
    manager           \* the AEGraphContextManager instance and the position of its update

\* the state of the ingestion entry points, and the state of the traversal tools
ingestVars == <<mode, pc, runs, file, embeddings_map, stats, calls, logged,
                external_to_uuid, connections, result>>

walkVars == <<current_connection_id, reply, callers, result_sets>>

vars == <<ingestVars, walkVars, manager>>

-----------------------------------------------------------------------------
(* Bounds of the model *)

MaxNodes == 2
MaxEdges == 1
MaxContent == 2
MaxRuns == 2
MaxItems == 2
MaxLayers == 2
MaxSimNodes == 2

\* a key the dictionary does not have
NoKey == "NoKey"
\* no value
None == "None"

-----------------------------------------------------------------------------
(* Generic helpers *)

SeqsUpTo(S, n) == UNION {[1..k -> S] : k \in 0..n}

EmptyMap == [k \in {} |-> None]

Put(m, k, v) == [x \in (DOMAIN m) \cup {k} |-> IF x = k THEN v ELSE m[x]]

\* the value of a similarity that was not computed
NoScore == [dot |-> 0, nsq |-> 1]

\* the properties of an edge that carries none the model looks at
NoProps == [relationship |-> None, similarity_score |-> NoScore]

\* one create-node call: the run that issued it, the node type or endpoint, the id
NodeCall(r, kind, id, emb) ==
    [op |-> "node", run |-> r, kind |-> kind, id |-> id, from |-> None, to |-> None,
     embedding |-> emb, props |-> NoProps, ok |-> TRUE]

\* one create-edge call: the run that issued it, the edge type, the endpoints, the properties
EdgeCall(r, kind, from, to, props) ==
    [op |-> "edge", run |-> r, kind |-> kind, id |-> None, from |-> from, to |-> to,
     embedding |-> FALSE, props |-> props, ok |-> TRUE]

\* the same call, answered by the store with something else than HTTP 200
Refused(call) == [call EXCEPT !.ok = FALSE]

-----------------------------------------------------------------------------
(* ae_project_graph_ingestion.py *)

GraphStats == [nodes_created |-> 0, edges_created |-> 0, embeddings_generated |-> 0, errors |-> 0]

node_types ==
    [t \in {"Project", "Composition", "FootageItem", "ProjectFolder", "AVLayer", "TextLayer",
            "ShapeLayer", "CameraLayer", "LightLayer", "Property", "PropertyGroup", "Effect",
            "Keyframe", "Expression", "RenderQueueItem"} |->
        CASE t = "Project" -> "ae_project"
          [] t = "Composition" -> "ae_composition"
          [] t = "FootageItem" -> "ae_footage"
          [] t = "ProjectFolder" -> "ae_folder"
          [] t = "AVLayer" -> "ae_layer"
          [] t = "TextLayer" -> "ae_text_layer"
          [] t = "ShapeLayer" -> "ae_shape_layer"
          [] t = "CameraLayer" -> "ae_camera_layer"
          [] t = "LightLayer" -> "ae_light_layer"
          [] t = "Property" -> "ae_property"
          [] t = "PropertyGroup" -> "ae_property_group"
          [] t = "Effect" -> "ae_effect"
          [] t = "Keyframe" -> "ae_keyframe"
          [] t = "Expression" -> "ae_expression"
          [] t = "RenderQueueItem" -> "ae_render_item"]

edge_types ==
    [t \in {"CONTAINS", "PARENTS_TO", "USES_SOURCE", "DRIVES_WITH_EXPRESSION", "HAS_KEYFRAME",
            "RENDERS", "REFERENCES_IN_EXPRESSION", "SIMILAR_NAME", "SIMILAR_FUNCTION"} |->
        CASE t = "CONTAINS" -> "contains"
          [] t = "PARENTS_TO" -> "parents_to"
          [] t = "USES_SOURCE" -> "uses_source"
          [] t = "DRIVES_WITH_EXPRESSION" -> "drives_with_expression"
          [] t = "HAS_KEYFRAME" -> "has_keyframe"
          [] t = "RENDERS" -> "renders"
          [] t = "REFERENCES_IN_EXPRESSION" -> "references_in_expression"
          [] t = "SIMILAR_NAME" -> "similar_name"
          [] t = "SIMILAR_FUNCTION" -> "similar_function"]

\* self.node_types.get(node_type, "ae_unknown")
HelixNodeType(t) == IF t \in DOMAIN node_types THEN node_types[t] ELSE "ae_unknown"

\* self.edge_types.get(edge_type, "unknown_relation")
HelixEdgeType(t) == IF t \in DOMAIN edge_types THEN edge_types[t] ELSE "unknown_relation"

\* f"{content_id}_{field}"
EmbedKey(id, field) == id \o "_" \o field

(* The export documents ingest_project reads. A node or an edge may lack a  *)
(* key (NoKey); "c" is an id no node of a document carries.                 *)
NodeRecs ==
    { [id |-> "a", type |-> "TextLayer"], [id |-> "b", type |-> "TextLayer"],
      [id |-> "b", type |-> "Widget"], [id |-> "a", type |-> NoKey],
      [id |-> NoKey, type |-> "TextLayer"] }

EdgeRecs ==
    { [from |-> "a", to |-> "b", type |-> "CONTAINS"],
      [from |-> "b", to |-> "a", type |-> "CONTAINS"],
      [from |-> "a", to |-> "c", type |-> "USES_SOURCE"],
      [from |-> "a", to |-> "b", type |-> "LINKS"],
      [from |-> NoKey, to |-> "b", type |-> "CONTAINS"] }

ContentRecs ==
    { [id |-> "a", field |-> "name", content |-> "text"],
      [id |-> "b", field |-> "name", content |-> "text"],
      [id |-> "a", field |-> "name", content |-> NoKey] }

\* the vectors the embedding step may produce in a pipeline run
Vectors == { <<1, 0, 0, 0>>, <<0, 1, 0, 0>> }

\* a document carries edges or embedding content (or neither)
ProjectData ==
    { [nodes |-> n, edges |-> e, embedding_content |-> <<>>] :
          n \in SeqsUpTo(NodeRecs, MaxNodes), e \in SeqsUpTo(EdgeRecs, MaxEdges) }
    \cup
    { [nodes |-> n, edges |-> <<>>, embedding_content |-> c] :
          n \in SeqsUpTo(NodeRecs, MaxNodes), c \in SeqsUpTo(ContentRecs, MaxContent) }

NoData == [nodes |-> <<>>, edges |-> <<>>, embedding_content |-> <<>>]

\* the file at project_json_path: unreadable (open or json.load raises), an export
\* that reports success false, or a successful export with its data
ExportFiles ==
    { [readable |-> FALSE, success |-> FALSE, data |-> NoData],
      [readable |-> TRUE, success |-> FALSE, data |-> NoData] }
    \cup {[readable |-> TRUE, success |-> TRUE, data |-> d] : d \in ProjectData}

(* _generate_embeddings: vecs[i] is the vector np.random.rand yields for the *)
(* i-th entry. A missing key raises inside the try, and the method returns  *)
(* {} with the counter left where it was.                                   *)
RECURSIVE GenerateEmbeddingsFrom(_, _, _, _, _)
GenerateEmbeddingsFrom(content, vecs, i, m, n) ==
    IF i > Len(content) THEN [map |-> m, generated |-> n, failed |-> FALSE]
    ELSE IF NoKey \in {content[i].id, content[i].field, content[i].content}
         THEN [map |-> EmptyMap, generated |-> n, failed |-> TRUE]
         ELSE GenerateEmbeddingsFrom(content, vecs, i + 1,
                  Put(m, EmbedKey(content[i].id, content[i].field), vecs[i]), n + 1)

GenerateEmbeddings(content, vecs) == GenerateEmbeddingsFrom(content, vecs, 1, EmptyMap, 0)

\* one iteration of the loop of _ingest_nodes: the call it issues, or <<>> when it raised
IngestNode(node, emap, r) ==
    IF node.id = NoKey \/ node.type = NoKey THEN <<>>
    ELSE <<NodeCall(r, HelixNodeType(node.type), node.id,
                    EmbedKey(node.id, "name") \in DOMAIN emap)>>

\* _ingest_nodes over nodes[i..]: calls issued, nodes created, errors counted
RECURSIVE IngestNodes(_, _, _, _)
IngestNodes(nodes, emap, r, i) ==
    IF i > Len(nodes) THEN [log |-> <<>>, created |-> 0, errors |-> 0]
    ELSE LET one == IngestNode(nodes[i], emap, r)
             rest == IngestNodes(nodes, emap, r, i + 1)
         IN  [log |-> one \o rest.log,
              created |-> Len(one) + rest.created,
              errors |-> (1 - Len(one)) + rest.errors]

\* one iteration of the loop of _ingest_edges
IngestEdge(edge, r) ==
    IF NoKey \in {edge.from, edge.to, edge.type} THEN <<>>
    ELSE <<EdgeCall(r, HelixEdgeType(edge.type), edge.from, edge.to, None)>>

\* _ingest_edges with an except clause that does not count the failure
RECURSIVE IngestEdgesErrorsDropped(_, _, _)
IngestEdgesErrorsDropped(edges, r, i) ==
    IF i > Len(edges) THEN [log |-> <<>>, created |-> 0, errors |-> 0]
    ELSE LET one == IngestEdge(edges[i], r)
             rest == IngestEdgesErrorsDropped(edges, r, i + 1)
         IN  [log |-> one \o rest.log,
              created |-> Len(one) + rest.created,
              errors |-> rest.errors]

\* _ingest_edges over edges[i..]
RECURSIVE IngestEdges(_, _, _)
IngestEdges(edges, r, i) ==
    IF i > Len(edges) THEN [log |-> <<>>, created |-> 0, errors |-> 0]
    ELSE LET one == IngestEdge(edges[i], r)
             rest == IngestEdges(edges, r, i + 1)
         IN  [log |-> one \o rest.log,
              created |-> Len(one) + rest.created,
              errors |-> (1 - Len(one)) + rest.errors]

\* np.dot(a, b)
RECURSIVE Dot(_, _)
Dot(a, b) == IF a = <<>> THEN 0 ELSE Head(a) * Head(b) + Dot(Tail(a), Tail(b))

(* _cosine_similarity: dot / (norm_a * norm_b), kept as dot and the product  *)
(* of the squared norms; 0.0 when a norm is zero.                           *)
CosineSimilarity(a, b) ==
    IF Dot(a, a) = 0 \/ Dot(b, b) = 0 THEN NoScore
    ELSE [dot |-> Dot(a, b), nsq |-> Dot(a, a) * Dot(b, b)]

\* the comparison of the inner loop made non-strict: similarity >= threshold
ExceedsOrEquals(similarity, threshold) ==
    /\ similarity.dot > 0
    /\ 100 * similarity.dot * similarity.dot >= threshold * threshold * similarity.nsq

\* the comparison of the inner loop turned around: similarity < threshold
ExceedsReversed(similarity, threshold) ==
    100 * similarity.dot * similarity.dot < threshold * threshold * similarity.nsq

\* similarity > threshold, the threshold in tenths (0 or more)
Exceeds(similarity, threshold) ==
    /\ similarity.dot > 0
    /\ 100 * similarity.dot * similarity.dot > threshold * threshold * similarity.nsq

similarity_threshold == 7

layer_types == {"AVLayer", "TextLayer", "ShapeLayer", "CameraLayer", "LightLayer"}

property_types == {"Property", "PropertyGroup"}

\* _should_compute_similarity with one layer type, or one property type, being enough
ShouldComputeSimilarityEither(type1, type2) ==
    \/ type1 = type2
    \/ type1 \in layer_types \/ type2 \in layer_types
    \/ type1 \in property_types \/ type2 \in property_types

\* _should_compute_similarity
ShouldComputeSimilarity(type1, type2) ==
    \/ type1 = type2
    \/ type1 \in layer_types /\ type2 \in layer_types
    \/ type1 \in property_types /\ type2 \in property_types

(* The first loop of _compute_semantic_relationships over nodes[i..]: the   *)
(* nodes that have a name embedding. node['id'], and node['type'] of a node *)
(* that has an embedding, raise KeyError when the key is missing.           *)
RECURSIVE NodesWithEmbeddings(_, _, _)
NodesWithEmbeddings(nodes, emap, i) ==
    IF i > Len(nodes) THEN [raised |-> FALSE, list |-> <<>>]
    ELSE IF nodes[i].id = NoKey THEN [raised |-> TRUE, list |-> <<>>]
    ELSE IF EmbedKey(nodes[i].id, "name") \notin DOMAIN emap
         THEN NodesWithEmbeddings(nodes, emap, i + 1)
    ELSE IF nodes[i].type = NoKey THEN [raised |-> TRUE, list |-> <<>>]
    ELSE LET rest == NodesWithEmbeddings(nodes, emap, i + 1)
         IN  [raised |-> rest.raised,
              list |-> IF rest.raised THEN <<>>
                       ELSE <<[id |-> nodes[i].id, type |-> nodes[i].type,
                               embedding |-> emap[EmbedKey(nodes[i].id, "name")]]>> \o rest.list]

\* the body of the inner loop for the pair (node1, node2): the edge it creates, if any
SimilarityEdge(node1, node2, threshold, r) ==
    IF /\ ShouldComputeSimilarity(node1.type, node2.type)
       /\ Exceeds(CosineSimilarity(node1.embedding, node2.embedding), threshold)
    THEN <<EdgeCall(r, "similar_name", node1.id, node2.id,
                    [relationship |-> "semantic_similarity",
                     similarity_score |-> CosineSimilarity(node1.embedding, node2.embedding)])>>
    ELSE <<>>

\* the pairwise loops of _compute_semantic_relationships from the pair (i, j) on
RECURSIVE SimilarityEdges(_, _, _, _, _)
SimilarityEdges(nwe, threshold, r, i, j) ==
    IF i > Len(nwe) THEN <<>>
    ELSE IF j > Len(nwe) THEN SimilarityEdges(nwe, threshold, r, i + 1, i + 2)
    ELSE SimilarityEdge(nwe[i], nwe[j], threshold, r)
         \o SimilarityEdges(nwe, threshold, r, i, j + 1)

\* _compute_semantic_relationships with the given threshold
ComputeSemanticRelationships(nodes, emap, threshold, r) ==
    LET nwe == NodesWithEmbeddings(nodes, emap, 1)
    IN  [raised |-> nwe.raised,
         log |-> IF nwe.raised THEN <<>> ELSE SimilarityEdges(nwe.list, threshold, r, 1, 2)]

\* _initialize_schema without its except clause: the exception leaves the method
InitializeSchemaRaises(storeUp) ==
    [raised |-> ~storeUp, logged |-> "none"]

(* _initialize_schema: client.query(helix.init()) raises when the store is  *)
(* not reachable; the except clause logs a warning and the method returns.  *)
InitializeSchema(storeUp) ==
    [raised |-> FALSE, logged |-> IF storeUp THEN "none" ELSE "schema_warning"]

NoResult == [status |-> "none", stats |-> GraphStats]

Raised(st) == [status |-> "raised", stats |-> st]

Returned(st) == [status |-> "returned", stats |-> st]

(* ingest_project, from the call to the return of _initialize_schema. The   *)
(* first call reads any export file; a later call on the same instance      *)
(* reads the same file again.                                               *)
IngestProjectStart ==
    /\ mode = "ingest_project"
    /\ pc \in {"Idle", "Done", "Failed"}
    /\ runs < MaxRuns
    /\ \E f \in (IF runs = 0 THEN ExportFiles ELSE {file}), storeUp \in BOOLEAN :
          LET schema == InitializeSchema(storeUp)
              failed == ~f.readable \/ ~f.success \/ schema.raised
          IN  /\ file' = f
              /\ pc' = IF failed THEN "Failed" ELSE "SchemaReady"
              /\ stats' = IF failed THEN [stats EXCEPT !.errors = @ + 1] ELSE stats
              /\ logged' = IF ~f.readable \/ ~f.success THEN "ingestion_failed"
                            ELSE IF schema.raised THEN "schema_failed" ELSE schema.logged
              /\ result' = IF failed THEN Raised(stats') ELSE NoResult
    /\ runs' = runs + 1
    /\ embeddings_map' = EmptyMap
    /\ UNCHANGED <<mode, calls, external_to_uuid, connections>>
    /\ UNCHANGED <<walkVars, manager>>

\* embeddings_map = self._generate_embeddings(project_data['embedding_content'])
IngestProjectEmbeddings ==
    /\ mode = "ingest_project"
    /\ pc = "SchemaReady"
    /\ \E vecs \in [1..Len(file.data.embedding_content) -> Vectors] :
          LET g == GenerateEmbeddings(file.data.embedding_content, vecs)
          IN  /\ embeddings_map' = g.map
              /\ stats' = [stats EXCEPT !.embeddings_generated = @ + g.generated]
              /\ logged' = IF g.failed THEN "embedding_failed" ELSE "none"
    /\ pc' = "EmbeddingsComputed"
    /\ UNCHANGED <<mode, runs, file, calls, external_to_uuid, connections, result>>
    /\ UNCHANGED <<walkVars, manager>>

\* the node phase moved ahead of the embedding phase
IngestProjectNodesFirst ==
    /\ mode = "ingest_project"
    /\ pc = "SchemaReady"
    /\ LET n == IngestNodes(file.data.nodes, embeddings_map, runs, 1)
       IN  /\ calls' = calls \o n.log
           /\ stats' = [stats EXCEPT !.nodes_created = @ + n.created, !.errors = @ + n.errors]
           /\ logged' = IF n.errors > 0 THEN "node_failed" ELSE "none"
    /\ pc' = "NodesMaterialized"
    /\ UNCHANGED <<mode, runs, file, embeddings_map, external_to_uuid, connections, result>>
    /\ UNCHANGED <<walkVars, manager>>

\* self._ingest_nodes(project_data['nodes'], embeddings_map)
IngestProjectNodes ==
    /\ mode = "ingest_project"
    /\ pc = "EmbeddingsComputed"
    /\ LET n == IngestNodes(file.data.nodes, embeddings_map, runs, 1)
       IN  /\ calls' = calls \o n.log
           /\ stats' = [stats EXCEPT !.nodes_created = @ + n.created, !.errors = @ + n.errors]
           /\ logged' = IF n.errors > 0 THEN "node_failed" ELSE "none"
    /\ pc' = "NodesMaterialized"
    /\ UNCHANGED <<mode, runs, file, embeddings_map, external_to_uuid, connections, result>>
    /\ UNCHANGED <<walkVars, manager>>

\* self._ingest_edges(project_data['edges'])
IngestProjectEdges ==
    /\ mode = "ingest_project"
    /\ pc = "NodesMaterialized"
    /\ LET e == IngestEdges(file.data.edges, runs, 1)
       IN  /\ calls' = calls \o e.log
           /\ stats' = [stats EXCEPT !.edges_created = @ + e.created, !.errors = @ + e.errors]
           /\ logged' = IF e.errors > 0 THEN "edge_failed" ELSE "none"
    /\ pc' = "EdgesMaterialized"
    /\ UNCHANGED <<mode, runs, file, embeddings_map, external_to_uuid, connections, result>>
    /\ UNCHANGED <<walkVars, manager>>

(* self._compute_semantic_relationships(project_data['nodes'], embeddings_map); *)
(* an exception it raises reaches the except clause of ingest_project.      *)
IngestProjectSimilarity ==
    /\ mode = "ingest_project"
    /\ pc = "EdgesMaterialized"
    /\ LET c == ComputeSemanticRelationships(file.data.nodes, embeddings_map,
                                             similarity_threshold, runs)
       IN  /\ calls' = calls \o c.log
           /\ pc' = IF c.raised THEN "Failed" ELSE "SimilarityComputed"
           /\ stats' = IF c.raised THEN [stats EXCEPT !.errors = @ + 1] ELSE stats
           /\ logged' = IF c.raised THEN "ingestion_failed" ELSE "none"
           /\ result' = IF c.raised THEN Raised(stats') ELSE result
    /\ UNCHANGED <<mode, runs, file, embeddings_map, external_to_uuid, connections>>
    /\ UNCHANGED <<walkVars, manager>>

\* return self.stats
IngestProjectReturn ==
    /\ mode = "ingest_project"
    /\ pc = "SimilarityComputed"
    /\ pc' = "Done"
    /\ result' = Returned(stats)
    /\ logged' = "none"
    /\ UNCHANGED <<mode, runs, file, embeddings_map, stats, calls, external_to_uuid, connections>>
    /\ UNCHANGED <<walkVars, manager>>

-----------------------------------------------------------------------------
(* backend/graph_navigator_server.py *)

\* the session id a request carries when it names none
DefaultSession == "default"

\* the nodes of an upload request
UploadNodeRecs ==
    { [id |-> "a", type |-> "Project", typeName |-> NoKey],
      [id |-> "a", type |-> "Item", typeName |-> "Composition"],
      [id |-> "b", type |-> "Item", typeName |-> "Footage"],
      [id |-> "b", type |-> "Layer", typeName |-> NoKey] }

UploadData ==
    { [nodes |-> n, edges |-> e, embedding_content |-> <<>>] :
          n \in SeqsUpTo(UploadNodeRecs, MaxNodes), e \in SeqsUpTo(EdgeRecs, MaxEdges) }

\* how the store answers one POST: 200 with an id, 200 without one, another
\* status, or requests.post raises
NodeOutcomes == {"uuid", "no_uuid", "http_error", "exception"}

EdgeOutcomes == {"ok", "http_error", "exception"}

\* the endpoint upload_graph selects for a node, NoKey when it skips the node
Endpoint(node) ==
    IF node.type = "Project" THEN "/CreateProject"
    ELSE IF node.type = "Item" /\ node.typeName = "Composition" THEN "/CreateComposition"
    ELSE IF node.type = "Item" /\ node.typeName = "Footage" THEN "/CreateFootageItem"
    ELSE IF node.type = "Item" /\ node.typeName = "Folder" THEN "/CreateProject"
    ELSE NoKey

\* the id the store returns for the i-th node of the request
Uuid(i) == "uuid_" \o ToString(i)

(* The node loop of upload_graph over nodes[i..], outs[i] the answer of the *)
(* store to the POST for nodes[i]: calls, nodes_added, external_to_uuid.    *)
RECURSIVE UploadNodes(_, _, _, _, _)
UploadNodes(nodes, outs, r, i, map) ==
    IF i > Len(nodes) THEN [log |-> <<>>, added |-> 0, map |-> map]
    ELSE IF Endpoint(nodes[i]) = NoKey THEN UploadNodes(nodes, outs, r, i + 1, map)
    ELSE LET call == NodeCall(r, Endpoint(nodes[i]), nodes[i].id, FALSE)
             ok == outs[i] \in {"uuid", "no_uuid"}
             rest == UploadNodes(nodes, outs, r, i + 1,
                         IF outs[i] = "uuid" THEN Put(map, nodes[i].id, Uuid(i)) ELSE map)
         IN  [log |-> <<IF ok THEN call ELSE Refused(call)>> \o rest.log,
              added |-> (IF ok THEN 1 ELSE 0) + rest.added,
              map |-> rest.map]

\* edge_type.lower()
Lower(t) ==
    CASE t = "CONTAINS" -> "contains"
      [] t = "USES_SOURCE" -> "uses_source"
      [] t = "LINKS" -> "links"
      [] OTHER -> t

\* edge.get('source') or edge.get('from'), and the same for the target: None when absent
EndpointId(v) == IF v = NoKey THEN None ELSE v

\* one iteration of the edge loop of upload_graph reaches requests.post
UploadEdgePosted(edge, map) ==
    /\ EndpointId(edge.from) # None
    /\ EndpointId(edge.to) # None
    /\ edge.from \in DOMAIN map
    /\ edge.to \in DOMAIN map

\* the edge loop of upload_graph over edges[i..]
RECURSIVE UploadEdges(_, _, _, _, _)
UploadEdges(edges, outs, r, i, map) ==
    IF i > Len(edges) THEN [log |-> <<>>, added |-> 0]
    ELSE LET rest == UploadEdges(edges, outs, r, i + 1, map)
         IN  IF ~UploadEdgePosted(edges[i], map) THEN rest
             ELSE LET type == IF edges[i].type = NoKey THEN "CONTAINS" ELSE edges[i].type
                      call == EdgeCall(r, "/AddContainsEdge", map[edges[i].from], map[edges[i].to],
                                       [relationship |-> IF type = "CONTAINS" THEN "contains"
                                                         ELSE Lower(type),
                                        similarity_score |-> NoScore])
                      ok == outs[i] = "ok"
                  IN  [log |-> <<IF ok THEN call ELSE Refused(call)>> \o rest.log,
                       added |-> (IF ok THEN 1 ELSE 0) + rest.added]

UploadStats == [nodes_added |-> 0, edges_added |-> 0, embeddings_added |-> 0]

\* /init: connections[session_id] = client
InitConnection ==
    /\ mode = "upload_graph"
    /\ pc = "Idle"
    /\ DefaultSession \notin connections
    /\ connections' = connections \cup {DefaultSession}
    /\ UNCHANGED <<mode, pc, runs, file, embeddings_map, stats, calls, logged,
                   external_to_uuid, result>>
    /\ UNCHANGED <<walkVars, manager>>

\* /upload_graph for a session that holds no client: 400, 'No connection found'
UploadGraphNoConnection ==
    /\ mode = "upload_graph"
    /\ pc = "Idle"
    /\ runs < MaxRuns
    /\ DefaultSession \notin connections
    /\ runs' = runs + 1
    /\ result' = [status |-> "no_connection", stats |-> UploadStats]
    /\ UNCHANGED <<mode, pc, file, embeddings_map, stats, calls, logged,
                   external_to_uuid, connections>>
    /\ UNCHANGED <<walkVars, manager>>

\* /upload_graph, from the request to the end of the node loop
UploadGraphNodes ==
    /\ mode = "upload_graph"
    /\ pc = "Idle"
    /\ runs < MaxRuns
    /\ DefaultSession \in connections
    /\ \E d \in UploadData :
          \E outs \in [1..Len(d.nodes) -> NodeOutcomes] :
             LET n == UploadNodes(d.nodes, outs, runs + 1, 1, EmptyMap)
             IN  /\ file' = [readable |-> TRUE, success |-> TRUE, data |-> d]
                 /\ calls' = calls \o n.log
                 /\ stats' = [UploadStats EXCEPT !.nodes_added = n.added]
                 /\ external_to_uuid' = n.map
    /\ runs' = runs + 1
    /\ pc' = "NodesMaterialized"
    /\ result' = NoResult
    /\ UNCHANGED <<mode, embeddings_map, logged, connections>>
    /\ UNCHANGED <<walkVars, manager>>

\* the edge loop of /upload_graph
UploadGraphEdges ==
    /\ mode = "upload_graph"
    /\ pc = "NodesMaterialized"
    /\ \E outs \in [1..Len(file.data.edges) -> EdgeOutcomes] :
          LET e == UploadEdges(file.data.edges, outs, runs, 1, external_to_uuid)
          IN  /\ calls' = calls \o e.log
              /\ stats' = [stats EXCEPT !.edges_added = e.added]
    /\ pc' = "EdgesMaterialized"
    /\ UNCHANGED <<mode, runs, file, embeddings_map, logged, external_to_uuid,
                   connections, result>>
    /\ UNCHANGED <<walkVars, manager>>

\* the embedding loop and the response of /upload_graph
UploadGraphRespond ==
    /\ mode = "upload_graph"
    /\ pc = "EdgesMaterialized"
    /\ stats' = [stats EXCEPT !.embeddings_added = Len(file.data.embedding_content)]
    /\ result' = Returned(stats')
    /\ pc' = "Done"
    /\ UNCHANGED <<mode, runs, file, embeddings_map, calls, logged, external_to_uuid,
                   connections>>
    /\ UNCHANGED <<walkVars, manager>>

-----------------------------------------------------------------------------
(* project_graph_helix_native.py *)

\* the items of a project document, without their layers
ItemRecs ==
    { [id |-> 1, type |-> "Composition", usedIn |-> <<>>],
      [id |-> 2, type |-> "Composition", usedIn |-> <<1>>],
      [id |-> 0, type |-> "FootageItem", usedIn |-> <<>>],
      [id |-> 2, type |-> "FootageItem", usedIn |-> <<>>],
      [id |-> 1, type |-> "Folder", usedIn |-> <<>>] }

(* The layers of a composition. source_id is <<>> when the layer has no     *)
(* such key and <<v>> when it has the value v; no item of a document has    *)
(* the id 3.                                                                *)
LayerRecs ==
    { [type |-> "TextLayer", source_id |-> <<>>],
      [type |-> "AVLayer", source_id |-> <<0>>],
      [type |-> "AVLayer", source_id |-> <<2>>],
      [type |-> "AVLayer", source_id |-> <<3>>],
      [type |-> NoKey, source_id |-> <<>>] }

WithLayers(item, layers) ==
    [id |-> item.id, type |-> item.type, usedIn |-> item.usedIn, layers |-> layers]

\* a project document whose h-th item carries the given layers and no other item has any
ProjectDocument(items, h, layers) ==
    [items |-> [k \in DOMAIN items |-> WithLayers(items[k], IF k = h THEN layers ELSE <<>>)]]

\* f"item_{item.get('id', 'unknown')}" for an item that has an id, f"item_{...}" for a reference
ItemId(id) == "item_" \o ToString(id)

\* f"{item_id}_layer_{i}", i counted from 0
LayerId(item_id, i) == item_id \o "_layer_" \o ToString(i)

\* the operation AddProjectNodes emits for an item
ItemOperation(item) ==
    IF item.type = "Composition" THEN "AddN<Composition>"
    ELSE IF item.type = "FootageItem" THEN "AddN<FootageItem>"
    ELSE "AddN<Item>"

\* the operation AddProjectNodes emits for a layer
LayerOperation(layer) ==
    IF layer.type = "TextLayer" THEN "AddN<TextLayer>"
    ELSE IF layer.type = "AVLayer" THEN "AddN<AVLayer>"
    ELSE "AddN<Layer>"

\* the node operations of the layers[i..] of an item
RECURSIVE LayerNodes(_, _, _, _)
LayerNodes(item_id, layers, r, i) ==
    IF i > Len(layers) THEN <<>>
    ELSE <<NodeCall(r, LayerOperation(layers[i]), LayerId(item_id, i - 1), FALSE)>>
         \o LayerNodes(item_id, layers, r, i + 1)

\* ItemNodes with each item's CONTAINS edge created right after the item's node
RECURSIVE ItemNodesThenEdge(_, _, _)
ItemNodesThenEdge(items, r, i) ==
    IF i > Len(items) THEN <<>>
    ELSE <<NodeCall(r, ItemOperation(items[i]), ItemId(items[i].id), FALSE),
           EdgeCall(r, "AddE<CONTAINS>", "project_root", ItemId(items[i].id),
                    [relationship |-> "project_item", similarity_score |-> NoScore])>>
         \o LayerNodes(ItemId(items[i].id), items[i].layers, r, 1)
         \o ItemNodesThenEdge(items, r, i + 1)

\* the loop of AddProjectNodes.query over items[i..]
RECURSIVE ItemNodes(_, _, _)
ItemNodes(items, r, i) ==
    IF i > Len(items) THEN <<>>
    ELSE <<NodeCall(r, ItemOperation(items[i]), ItemId(items[i].id), FALSE)>>
         \o LayerNodes(ItemId(items[i].id), items[i].layers, r, 1)
         \o ItemNodes(items, r, i + 1)

\* AddProjectNodes.query
AddProjectNodes(project_data, r) ==
    <<NodeCall(r, "AddN<Project>", "project_root", FALSE)>> \o ItemNodes(project_data.items, r, 1)

\* layer.get("source_id") is truthy
Truthy(v) == v # <<>> /\ v[1] # 0

NativeEdge(r, operation, from, to, relationship) ==
    EdgeCall(r, operation, from, to, [relationship |-> relationship, similarity_score |-> NoScore])

\* the edge operations of the layers[i..] of an item
RECURSIVE LayerEdges(_, _, _, _)
LayerEdges(item_id, layers, r, i) ==
    IF i > Len(layers) THEN <<>>
    ELSE <<NativeEdge(r, "AddE<CONTAINS>", item_id, LayerId(item_id, i - 1), "comp_layer")>>
         \o (IF Truthy(layers[i].source_id)
              THEN <<NativeEdge(r, "AddE<USES>", LayerId(item_id, i - 1),
                                ItemId(layers[i].source_id[1]), "layer_source")>>
              ELSE <<>>)
         \o LayerEdges(item_id, layers, r, i + 1)

\* the dependency edges of a composition for usedIn[i..]
RECURSIVE DependencyEdges(_, _, _, _)
DependencyEdges(item_id, usedIn, r, i) ==
    IF i > Len(usedIn) THEN <<>>
    ELSE <<NativeEdge(r, "AddE<DEPENDS_ON>", ItemId(usedIn[i]), item_id,
                      "composition_dependency")>>
         \o DependencyEdges(item_id, usedIn, r, i + 1)

\* ItemEdges with the project containing its compositions only
RECURSIVE ItemEdgesCompositionsOnly(_, _, _)
ItemEdgesCompositionsOnly(items, r, i) ==
    IF i > Len(items) THEN <<>>
    ELSE (IF items[i].type = "Composition"
           THEN <<NativeEdge(r, "AddE<CONTAINS>", "project_root", ItemId(items[i].id),
                             "project_item")>>
           ELSE <<>>)
         \o LayerEdges(ItemId(items[i].id), items[i].layers, r, 1)
         \o (IF items[i].type = "Composition"
              THEN DependencyEdges(ItemId(items[i].id), items[i].usedIn, r, 1)
              ELSE <<>>)
         \o ItemEdgesCompositionsOnly(items, r, i + 1)

\* the loop of AddProjectEdges.query over items[i..]
RECURSIVE ItemEdges(_, _, _)
ItemEdges(items, r, i) ==
    IF i > Len(items) THEN <<>>
    ELSE <<NativeEdge(r, "AddE<CONTAINS>", "project_root", ItemId(items[i].id), "project_item")>>
         \o LayerEdges(ItemId(items[i].id), items[i].layers, r, 1)
         \o (IF items[i].type = "Composition"
              THEN DependencyEdges(ItemId(items[i].id), items[i].usedIn, r, 1)
              ELSE <<>>)
         \o ItemEdges(items, r, i + 1)

\* AddProjectEdges.query
AddProjectEdges(project_data, r) == ItemEdges(project_data.items, r, 1)

\* the stats ingest_project_graph reports
NativeStats(project_data) ==
    [nodes_created |-> Len(project_data.items) + 1,
     edges_created |->
         Cardinality({k \in DOMAIN project_data.items : project_data.items[k].layers # <<>>}) * 2]

NativeFailure == [status |-> "failed", stats |-> [nodes_created |-> 0, edges_created |-> 0]]

\* ingest_project_graph: nodes_result = db.query(AddProjectNodes(project_data)),
\* for a document whose layers are drawn from layerRecs
NativeAddNodesOf(layerRecs) ==
    /\ mode = "ingest_project_graph"
    /\ pc = "Idle"
    /\ runs < MaxRuns
    /\ \E items \in SeqsUpTo(ItemRecs, MaxItems), layers \in SeqsUpTo(layerRecs, MaxLayers),
          h \in 1..MaxItems, ok \in BOOLEAN :
          /\ IF layers = <<>> THEN h = 1 ELSE h <= Len(items)
          /\ LET d == ProjectDocument(items, h, layers)
             IN  /\ file' = [readable |-> TRUE, success |-> TRUE, data |-> d]
                 /\ calls' = IF ok THEN calls \o AddProjectNodes(d, runs + 1) ELSE calls
          /\ pc' = IF ok THEN "NodesMaterialized" ELSE "Failed"
          /\ result' = IF ok THEN NoResult ELSE NativeFailure
    /\ runs' = runs + 1
    /\ UNCHANGED <<mode, embeddings_map, stats, logged, external_to_uuid, connections>>
    /\ UNCHANGED <<walkVars, manager>>

NativeAddNodes == NativeAddNodesOf(LayerRecs)

\* ingest_project_graph: edges_result = db.query(AddProjectEdges(project_data)), and the return
NativeAddEdges ==
    /\ mode = "ingest_project_graph"
    /\ pc = "NodesMaterialized"
    /\ \E ok \in BOOLEAN :
          /\ calls' = IF ok THEN calls \o AddProjectEdges(file.data, runs) ELSE calls
          /\ pc' = IF ok THEN "Done" ELSE "Failed"
          /\ result' = IF ok THEN [status |-> "returned", stats |-> NativeStats(file.data)]
                        ELSE NativeFailure
    /\ UNCHANGED <<mode, runs, file, embeddings_map, stats, logged, external_to_uuid,
                   connections>>
    /\ UNCHANGED <<walkVars, manager>>

-----------------------------------------------------------------------------

(* the traversal side before any call: no connection, no reply, no caller at work *)

MaxDepth == 3

MaxCallers == 2

\* current_connection_id = None
NoConnection == "None"

NoReply ==
    [tool |-> "none", id |-> NoKey, depth |-> 0, direction |-> "none", kind |-> "none",
     layers |-> <<>>, incoming |-> <<>>, outgoing |-> <<>>, render_path |-> <<>>,
     queries |-> <<>>, rows |-> <<>>]

\* the callers that may have a logical query under way at the same time
Callers == 1..MaxCallers

\* client = Client(local=True, port=6970): the one client object of the navigator
GlobalClient == "client_6970"

\* the sessions of the store that the two servers can address: the navigator's
\* client, and the connection helix.init() hands to the walker
StoreSessions == {GlobalClient, "connection_1"}

NoCaller == 0

NoCallers ==
    [c \in Callers |-> [pc |-> "idle", session_id |-> NoKey,
                        store_session |-> "none", read |-> NoCaller]]

NoResultSets == [s \in StoreSessions |-> NoCaller]

\* AEGraphContextManager.__init__: no project graph, no export time; no call made yet
NewManager ==
    [pc |-> "idle", calls |-> 0, current_project_graph |-> <<>>, last_export_time |-> <<>>,
     exported |-> FALSE, ingested |-> FALSE, returned |-> "none", summary |-> "none"]

-----------------------------------------------------------------------------

Modes == {"ingest_project", "upload_graph", "ingest_project_graph"}

Init ==
    /\ mode \in Modes
    /\ pc = "Idle"
    /\ runs = 0
    /\ file = [readable |-> FALSE, success |-> FALSE, data |-> NoData]
    /\ embeddings_map = EmptyMap
    /\ stats = IF mode = "upload_graph" THEN UploadStats ELSE GraphStats
    /\ calls = <<>>
    /\ logged = "none"
    /\ external_to_uuid = EmptyMap
    /\ connections = {}
    /\ result = NoResult
    /\ current_connection_id = NoConnection
    /\ reply = NoReply
    /\ callers = NoCallers
    /\ result_sets = NoResultSets
    /\ manager = NewManager

Next ==
    \/ IngestProjectStart
    \/ IngestProjectEmbeddings
    \/ IngestProjectNodes
    \/ IngestProjectEdges
    \/ IngestProjectSimilarity
    \/ IngestProjectReturn
    \/ InitConnection
    \/ UploadGraphNoConnection
    \/ UploadGraphNodes
    \/ UploadGraphEdges
    \/ UploadGraphRespond
    \/ NativeAddNodes
    \/ NativeAddEdges

Spec == Init /\ [][Next]_vars

-----------------------------------------------------------------------------
(* The similarity computation on its own: nodes of every similarity class   *)
(* and embeddings of every angle, taken at the point where ingest_project   *)
(* calls _compute_semantic_relationships.                                   *)

SimNodeRecs ==
    { [id |-> i, type |-> t] :
          i \in {"a", "b"}, t \in {"TextLayer", "AVLayer", "Property", "PropertyGroup"} }

\* cosines: 0 with the zero vector, 0.7 (first and last), 0.7071 (first and second),
\* 0.8485 (second and last), 1 (a vector and itself)
SimVectors == { <<0, 0, 0, 0>>, <<1, 0, 0, 0>>, <<1, 1, 0, 0>>, <<7, 5, 5, 1>> }

\* the embedding content that yields one name embedding per id of ids
SimContent(ids) ==
    IF ids = {} THEN <<>>
    ELSE IF ids = {"a", "b"}
         THEN << [id |-> "a", field |-> "name", content |-> "text"],
                 [id |-> "b", field |-> "name", content |-> "text"] >>
         ELSE << [id |-> CHOOSE i \in ids : TRUE, field |-> "name", content |-> "text"] >>

InitSim ==
    /\ mode = "ingest_project"
    /\ pc = "EdgesMaterialized"
    /\ runs = 1
    /\ \E n \in SeqsUpTo(SimNodeRecs, MaxSimNodes), ids \in SUBSET {"a", "b"} :
          \E vecs \in [1..Len(SimContent(ids)) -> SimVectors] :
             LET g == GenerateEmbeddings(SimContent(ids), vecs)
                 created == IngestNodes(n, g.map, 1, 1)
             IN  /\ file = [readable |-> TRUE, success |-> TRUE,
                             data |-> [nodes |-> n, edges |-> <<>>,
                                       embedding_content |-> SimContent(ids)]]
                 /\ embeddings_map = g.map
                 /\ stats = [GraphStats EXCEPT !.embeddings_generated = g.generated,
                                               !.nodes_created = created.created,
                                               !.errors = created.errors]
                 /\ calls = created.log
    /\ logged = "none"
    /\ external_to_uuid = EmptyMap
    /\ connections = {}
    /\ result = NoResult
    /\ current_connection_id = NoConnection
    /\ reply = NoReply
    /\ callers = NoCallers
    /\ result_sets = NoResultSets
    /\ manager = NewManager

NextSim ==
    \/ IngestProjectSimilarity
    \/ IngestProjectReturn

SpecSim == InitSim /\ [][NextSim]_vars

-----------------------------------------------------------------------------
(* The edge phase over documents with several edges: the node phase of      *)
(* ingest_project or of upload_graph has created the nodes "a" and "b".     *)

MaxForestEdges == 2

ForestNodes == << [id |-> "a", type |-> "TextLayer"], [id |-> "b", type |-> "TextLayer"] >>

ForestUploadNodes ==
    << [id |-> "a", type |-> "Project", typeName |-> NoKey],
       [id |-> "b", type |-> "Item", typeName |-> "Footage"] >>

InitEdges ==
    /\ mode \in {"ingest_project", "upload_graph"}
    /\ pc = "NodesMaterialized"
    /\ runs = 1
    /\ \E e \in SeqsUpTo(EdgeRecs, MaxForestEdges) :
          file = [readable |-> TRUE, success |-> TRUE,
                  data |-> [nodes |-> IF mode = "ingest_project" THEN ForestNodes
                                      ELSE ForestUploadNodes,
                            edges |-> e, embedding_content |-> <<>>]]
    /\ embeddings_map = EmptyMap
    /\ LET n == IngestNodes(ForestNodes, EmptyMap, 1, 1)
           u == UploadNodes(ForestUploadNodes, [i \in 1..2 |-> "uuid"], 1, 1, EmptyMap)
       IN  /\ calls = IF mode = "ingest_project" THEN n.log ELSE u.log
           /\ stats = IF mode = "ingest_project"
                      THEN [GraphStats EXCEPT !.nodes_created = n.created]
                      ELSE [UploadStats EXCEPT !.nodes_added = u.added]
           /\ external_to_uuid = IF mode = "ingest_project" THEN EmptyMap ELSE u.map
    /\ logged = "none"
    /\ connections = IF mode = "ingest_project" THEN {} ELSE {DefaultSession}
    /\ result = NoResult
    /\ current_connection_id = NoConnection
    /\ reply = NoReply
    /\ callers = NoCallers
    /\ result_sets = NoResultSets
    /\ manager = NewManager

NextEdges ==
    \/ IngestProjectEdges
    \/ IngestProjectSimilarity
    \/ IngestProjectReturn
    \/ UploadGraphEdges
    \/ UploadGraphRespond

SpecEdges == InitEdges /\ [][NextEdges]_vars

-----------------------------------------------------------------------------
(* mcp_ae_graph_walker.py and project_graph_helix.py: the traversal tools *)

\* json.dumps({"error": str(e)}) / {"success": False, "error": str(e)}
ErrorDocument(tool, id, depth, direction) ==
    [NoReply EXCEPT !.tool = tool, !.id = id, !.depth = depth, !.direction = direction,
                    !.kind = "error"]

\* get_connection(): the id kept, else the id the store hands out, else the exception
\* of client.query(helix.init())
GetConnection(storeUp) ==
    IF current_connection_id # NoConnection
        THEN [raised |-> FALSE, id |-> current_connection_id]
    ELSE IF storeUp THEN [raised |-> FALSE, id |-> "connection_1"]
    ELSE [raised |-> TRUE, id |-> NoConnection]

\* the arguments a caller may pass: ids in the store and one that is not, depths
\* with a negative one, directions of both modules and one of neither
StartIds == {"a", "b", "c"}

Depths == (0 - 1)..MaxDepth

Directions == {"incoming", "outgoing", "both", "inbound", "outbound", "sideways"}

\* what the store answers to one query: rows, nothing, or an exception
StoreAnswers == {"rows", "empty", "raises"}

\* layer_info of one row of the out_step response
LayerInfo(layer, depth) ==
    [id |-> layer, property_groups |-> depth >= 2, keyframes |-> depth >= 3]

\* the body of walk_composition_hierarchy: the connection it keeps and the
\* document it returns
WalkCompositionHierarchy(composition_id, depth, storeUp, layers_response) ==
    LET connection == GetConnection(storeUp)
        raised == connection.raised \/ layers_response = "raises"
    IN  /\ current_connection_id' = connection.id
        /\ reply' = IF raised
                    THEN ErrorDocument("walker.walk_composition_hierarchy",
                                       composition_id, depth, "none")
                    ELSE [NoReply EXCEPT
                            !.tool = "walker.walk_composition_hierarchy",
                            !.id = composition_id, !.depth = depth,
                            !.kind = "result",
                            !.layers = IF layers_response = "rows"
                                       THEN <<LayerInfo("layer_1", depth)>>
                                       ELSE <<>>]

\* mcp_ae_graph_walker.walk_composition_hierarchy(composition_id, depth)
WalkerWalkCompositionHierarchy ==
    \E composition_id \in StartIds, depth \in Depths, storeUp \in BOOLEAN,
       layers_response \in StoreAnswers :
        /\ WalkCompositionHierarchy(composition_id, depth, storeUp, layers_response)
        /\ UNCHANGED <<ingestVars, manager, callers, result_sets>>

\* _traverse_dependencies(connection_id, node_id, direction, max_depth)
TraverseDependencies(direction) ==
    IF direction = "incoming" THEN <<"dependency_1">> ELSE <<"source_1">>

\* mcp_ae_graph_walker.walk_dependencies(node_id, direction, max_depth)
WalkerWalkDependencies ==
    \E node_id \in StartIds, direction \in Directions, max_depth \in Depths,
       storeUp \in BOOLEAN :
        LET connection == GetConnection(storeUp)
        IN  /\ current_connection_id' = connection.id
            /\ reply' = IF connection.raised
                        THEN ErrorDocument("walker.walk_dependencies",
                                           node_id, max_depth, direction)
                        ELSE [NoReply EXCEPT
                                !.tool = "walker.walk_dependencies",
                                !.id = node_id, !.depth = max_depth,
                                !.direction = direction, !.kind = "result",
                                !.incoming = IF direction \in {"incoming", "both"}
                                             THEN TraverseDependencies("incoming")
                                             ELSE <<>>,
                                !.outgoing = IF direction \in {"outgoing", "both"}
                                             THEN TraverseDependencies("outgoing")
                                             ELSE <<>>]
            /\ UNCHANGED <<ingestVars, manager, callers, result_sets>>

\* _trace_layer_render_path(connection_id, layer_id)
TraceLayerRenderPath(layer_id) == <<layer_id, "comp_1", "render_1">>

\* mcp_ae_graph_walker.trace_render_path(layer_id)
WalkerTraceRenderPath ==
    \E layer_id \in StartIds, storeUp \in BOOLEAN :
        LET connection == GetConnection(storeUp)
        IN  /\ current_connection_id' = connection.id
            /\ reply' = IF connection.raised
                        THEN ErrorDocument("walker.trace_render_path", layer_id, 0, "none")
                        ELSE [NoReply EXCEPT
                                !.tool = "walker.trace_render_path",
                                !.id = layer_id, !.kind = "result",
                                !.render_path = TraceLayerRenderPath(layer_id)]
            /\ UNCHANGED <<ingestVars, manager, callers, result_sets>>

\* what db.query(query) returns when it returns: the rows the store found
StoreRows(answer) == IF answer = "rows" THEN <<"row_1">> ELSE <<>>

\* project_graph_helix.walk_composition_hierarchy(node_id, depth)
HelixWalkCompositionHierarchy ==
    \E node_id \in StartIds, depth \in Depths, answer \in StoreAnswers :
        /\ reply' = IF answer = "raises"
                    THEN ErrorDocument("helix.walk_composition_hierarchy",
                                       node_id, depth, "none")
                    ELSE [NoReply EXCEPT
                            !.tool = "helix.walk_composition_hierarchy",
                            !.id = node_id, !.depth = depth, !.kind = "result",
                            !.queries = <<"outbound">>,
                            !.rows = StoreRows(answer)]
        /\ UNCHANGED <<ingestVars, manager, current_connection_id, callers, result_sets>>

\* WalkDependencies.query(): the directions of the traversals it asks for
WalkDependenciesQuery(direction) ==
    (IF direction \in {"outbound", "both"} THEN <<"outbound">> ELSE <<>>)
    \o (IF direction \in {"inbound", "both"} THEN <<"inbound">> ELSE <<>>)

\* project_graph_helix.walk_dependencies(node_id, direction)
HelixWalkDependencies ==
    \E node_id \in StartIds, direction \in Directions, answer \in StoreAnswers :
        /\ reply' = IF answer = "raises"
                    THEN ErrorDocument("helix.walk_dependencies", node_id, 0, direction)
                    ELSE [NoReply EXCEPT
                            !.tool = "helix.walk_dependencies",
                            !.id = node_id, !.direction = direction, !.kind = "result",
                            !.queries = WalkDependenciesQuery(direction),
                            !.rows = IF WalkDependenciesQuery(direction) = <<>>
                                     THEN <<>> ELSE StoreRows(answer)]
        /\ UNCHANGED <<ingestVars, manager, current_connection_id, callers, result_sets>>

\* the store holds the nodes "a" and "b" of one run of ingest_project
InitWalk ==
    /\ mode = "ingest_project"
    /\ pc = "Done"
    /\ runs = 1
    /\ file = [readable |-> TRUE, success |-> TRUE,
               data |-> [nodes |-> ForestNodes, edges |-> <<>>,
                         embedding_content |-> <<>>]]
    /\ embeddings_map = EmptyMap
    /\ LET n == IngestNodes(ForestNodes, EmptyMap, 1, 1)
       IN  /\ calls = n.log
           /\ stats = [GraphStats EXCEPT !.nodes_created = n.created]
    /\ logged = "none"
    /\ external_to_uuid = EmptyMap
    /\ connections = {}
    /\ result = NoResult
    /\ current_connection_id = NoConnection
    /\ reply = NoReply
    /\ callers = NoCallers
    /\ result_sets = NoResultSets
    /\ manager = NewManager

NextWalk ==
    \/ WalkerWalkCompositionHierarchy
    \/ WalkerWalkDependencies
    \/ WalkerTraceRenderPath
    \/ HelixWalkCompositionHierarchy
    \/ HelixWalkDependencies

SpecWalk == InitWalk /\ [][NextWalk]_vars

-----------------------------------------------------------------------------
(* the callers of the navigator and of the walker, and the store sessions   *)
(* their calls operate on                                                   *)

\* the session ids a caller may name in a request; 'default' when it names none
SessionIds == {DefaultSession, "session_1", "session_2"}

\* depth: int = 2
DefaultDepth == 2

\* a handler that serves every session id from the global client, without the test
HasConnectionAlways(session_id) == TRUE

\* connections.get(session_id) holds a client
HasConnection(session_id) == session_id \in connections

\* the response of a handler of the navigator, with the calls it made on the store
Response(tool, session_id, kind, queries) ==
    [NoReply EXCEPT !.tool = tool, !.id = session_id, !.kind = kind, !.queries = queries]

\* {'success': False, 'error': 'No connection found'}, 400
NoConnectionFound(tool, session_id) ==
    Response(tool, session_id, "No connection found", <<>>)

\* /init for a session id: connections[session_id] = client, or 500 when the
\* client of the store could not be built at start-up
InitConnectionFor(session_id, available) ==
    IF ~available
    THEN /\ connections' = connections
         /\ reply' = Response("/init", session_id, "HelixDB client not initialized", <<>>)
    ELSE /\ connections' = connections \cup {session_id}
         /\ reply' = Response("/init", session_id, "success", <<>>)

\* /edges_by_type and /filter_items for a session id: a step on the global
\* client, which replaces the current result set of its store session unless
\* the call raises (500, nothing changed)
ClientStep(c, tool, session_id, ok) ==
    IF ~HasConnection(session_id)
    THEN /\ reply' = NoConnectionFound(tool, session_id)
         /\ result_sets' = result_sets
    ELSE /\ reply' = Response(tool, session_id, IF ok THEN "success" ELSE "error", <<tool>>)
         /\ result_sets' = IF ok THEN [result_sets EXCEPT ![GlobalClient] = c]
                           ELSE result_sets

\* /next for a session id: result = client.next()
ClientNext(tool, session_id, ok) ==
    /\ reply' = IF ~HasConnection(session_id) THEN NoConnectionFound(tool, session_id)
                ELSE Response(tool, session_id, IF ok THEN "success" ELSE "error", <<tool>>)
    /\ result_sets' = result_sets

\* /init by a caller, the client built: connections[session_id] = client, the one
\* client object for every session
InitSession(c) ==
    /\ callers[c].pc = "idle"
    /\ \E session_id \in SessionIds :
        /\ InitConnectionFor(session_id, TRUE)
        /\ callers' = [callers EXCEPT ![c] = [pc |-> "connected",
                                              session_id |-> session_id,
                                              store_session |-> GlobalClient,
                                              read |-> NoCaller]]
    /\ UNCHANGED <<mode, pc, runs, file, embeddings_map, stats, calls, logged,
                   external_to_uuid, result>>
    /\ UNCHANGED <<current_connection_id, result_sets, manager>>

\* a step by a caller that holds a session
StepOnClient(c, tool, ok) ==
    /\ callers[c].pc # "idle"
    /\ ClientStep(c, tool, callers[c].session_id, ok)
    /\ callers' = IF ok THEN [callers EXCEPT ![c].pc = "stepped"] ELSE callers
    /\ UNCHANGED <<ingestVars, manager, current_connection_id>>

\* /edges_by_type: response = client.e_from_type(edge_type)
EdgesByType(c) == \E ok \in BOOLEAN : StepOnClient(c, "/edges_by_type", ok)

\* /filter_items: response = client.filter_items(**args)
FilterItems(c) ==
    /\ result_sets[GlobalClient] # NoCaller
    /\ \E ok \in BOOLEAN : StepOnClient(c, "/filter_items", ok)

\* /next: result = client.next(), the current result set of the client's session
NextResults(c) ==
    /\ callers[c].pc = "stepped"
    /\ ClientNext("/next", callers[c].session_id, TRUE)
    /\ callers' = [callers EXCEPT ![c].pc = "read",
                                  ![c].read = result_sets[GlobalClient]]
    /\ UNCHANGED <<ingestVars, manager, current_connection_id>>

\* walk_composition_hierarchy called by c: the out_step query runs on the one
\* connection that get_connection keeps for every call
CallerWalkCompositionHierarchy(c) ==
    /\ callers[c].pc = "idle"
    /\ \E composition_id \in StartIds, storeUp \in BOOLEAN,
          layers_response \in StoreAnswers :
        /\ WalkCompositionHierarchy(composition_id, DefaultDepth, storeUp, layers_response)
        /\ LET connection == GetConnection(storeUp)
           IN  IF connection.raised
               THEN UNCHANGED <<callers, result_sets>>
               ELSE /\ callers' = [callers EXCEPT
                                     ![c].store_session = connection.id,
                                     ![c].read = IF layers_response = "raises"
                                                 THEN NoCaller ELSE c]
                    /\ result_sets' = IF layers_response = "raises" THEN result_sets
                                      ELSE [result_sets EXCEPT ![connection.id] = c]
    /\ UNCHANGED <<ingestVars, manager>>

InitSessions == InitWalk

NextSessions ==
    \E c \in Callers :
        \/ InitSession(c)
        \/ EdgesByType(c)
        \/ FilterItems(c)
        \/ NextResults(c)
        \/ CallerWalkCompositionHierarchy(c)

SpecSessions == InitSessions /\ [][NextSessions]_vars

-----------------------------------------------------------------------------
(* ingest_project_graph over documents that also hold an AVLayer that omits *)
(* its source_id                                                            *)

MapperLayerRecs == LayerRecs \cup {[type |-> "AVLayer", source_id |-> <<>>]}

MapperAddNodes == NativeAddNodesOf(MapperLayerRecs)

InitMapper == Init /\ mode = "ingest_project_graph"

NextMapper == MapperAddNodes \/ NativeAddEdges

SpecMapper == InitMapper /\ [][NextMapper]_vars

-----------------------------------------------------------------------------
(* the handlers of the navigator, called with any session id *)

\* the operations of the navigator on a session
SessionOperations ==
    {"/schema", "/next", "/out_step", "/in_step", "/nodes_by_type", "/edges_by_type",
     "/filter_items", "/upload_graph"}

MaxUploads == 1

\* the bodies of the /upload_graph requests: one node, no edge
GateUploadData == {d \in UploadData : Len(d.nodes) = 1 /\ Len(d.edges) = 0}

\* the endpoints of a sequence of calls on the store
Endpoints(log) == [i \in 1..Len(log) |-> log[i].kind]

\* /init
InitConnectionAny ==
    /\ \E session_id \in SessionIds, available \in BOOLEAN :
          InitConnectionFor(session_id, available)
    /\ UNCHANGED <<mode, pc, runs, file, embeddings_map, stats, calls, logged,
                   external_to_uuid, result>>
    /\ UNCHANGED <<current_connection_id, callers, result_sets, manager>>

\* /schema: session_client.get_schema(), or one of its fallbacks
GetSchema ==
    /\ \E session_id \in SessionIds :
          reply' = IF ~HasConnection(session_id) THEN NoConnectionFound("/schema", session_id)
                   ELSE Response("/schema", session_id, "success", <<"/schema">>)
    /\ UNCHANGED <<ingestVars, manager, current_connection_id, callers, result_sets>>

\* /out_step and /in_step: the placeholder response, or 400 without an edge_label
PlaceholderStep(tool) ==
    /\ \E session_id \in SessionIds, edge_label \in {NoKey, "contains"} :
          reply' = IF ~HasConnection(session_id) THEN NoConnectionFound(tool, session_id)
                   ELSE IF edge_label = NoKey
                        THEN Response(tool, session_id, "edge_label is required", <<>>)
                   ELSE Response(tool, session_id, "success", <<>>)
    /\ UNCHANGED <<ingestVars, manager, current_connection_id, callers, result_sets>>

OutStep == PlaceholderStep("/out_step")

InStep == PlaceholderStep("/in_step")

\* /nodes_by_type: a POST to the endpoint of the node type, or 400 without a node_type
NodesByType ==
    /\ \E session_id \in SessionIds, node_type \in {NoKey, "Composition"} :
          reply' = IF ~HasConnection(session_id)
                   THEN NoConnectionFound("/nodes_by_type", session_id)
                   ELSE IF node_type = NoKey
                        THEN Response("/nodes_by_type", session_id, "node_type is required", <<>>)
                   ELSE Response("/nodes_by_type", session_id, "success", <<"/nodes_by_type">>)
    /\ UNCHANGED <<ingestVars, manager, current_connection_id, callers, result_sets>>

\* /edges_by_type and /filter_items
EdgesByTypeAny ==
    /\ \E c \in Callers, session_id \in SessionIds, ok \in BOOLEAN :
          ClientStep(c, "/edges_by_type", session_id, ok)
    /\ UNCHANGED <<ingestVars, manager, current_connection_id, callers>>

FilterItemsAny ==
    /\ \E c \in Callers, session_id \in SessionIds, ok \in BOOLEAN :
          ClientStep(c, "/filter_items", session_id, ok)
    /\ UNCHANGED <<ingestVars, manager, current_connection_id, callers>>

\* /next
NextResultsAny ==
    /\ \E session_id \in SessionIds, ok \in BOOLEAN : ClientNext("/next", session_id, ok)
    /\ UNCHANGED <<ingestVars, manager, current_connection_id, callers>>

\* /upload_graph, from the request to the response
UploadGraphAny ==
    /\ runs < MaxUploads
    /\ runs' = runs + 1
    /\ \E session_id \in SessionIds :
          IF ~HasConnection(session_id)
          THEN /\ reply' = NoConnectionFound("/upload_graph", session_id)
               /\ result' = [status |-> "no_connection", stats |-> UploadStats]
               /\ UNCHANGED <<file, stats, calls, external_to_uuid>>
          ELSE \E d \in GateUploadData :
                  \E outs \in [1..Len(d.nodes) -> NodeOutcomes] :
                     LET n == UploadNodes(d.nodes, outs, runs + 1, 1, EmptyMap)
                         e == UploadEdges(d.edges, <<>>, runs + 1, 1, n.map)
                         st == [nodes_added |-> n.added, edges_added |-> e.added,
                                embeddings_added |-> Len(d.embedding_content)]
                     IN  /\ file' = [readable |-> TRUE, success |-> TRUE, data |-> d]
                         /\ calls' = calls \o n.log \o e.log
                         /\ stats' = st
                         /\ external_to_uuid' = n.map
                         /\ result' = Returned(st)
                         /\ reply' = Response("/upload_graph", session_id, "success",
                                              Endpoints(n.log \o e.log))
    /\ UNCHANGED <<mode, pc, embeddings_map, logged, connections>>
    /\ UNCHANGED <<current_connection_id, callers, result_sets, manager>>

InitGate == Init /\ mode = "upload_graph"

NextGate ==
    \/ InitConnectionAny
    \/ UploadGraphAny
    \/ GetSchema
    \/ OutStep
    \/ InStep
    \/ NodesByType
    \/ EdgesByTypeAny
    \/ FilterItemsAny
    \/ NextResultsAny

SpecGate == InitGate /\ [][NextGate]_vars

-----------------------------------------------------------------------------
(* ae_graph_context_integration.py: AEGraphContextManager *)

MaxEnsureCalls == 6

\* ensure_project_graph_current, up to the call of _update_project_graph:
\* _check_project_needs_update is current_project_graph is None
EnsureProjectGraphCurrent ==
    /\ manager.pc = "idle"
    /\ manager.calls < MaxEnsureCalls
    /\ manager' = IF manager.current_project_graph = <<>>
                  THEN [manager EXCEPT !.calls = @ + 1, !.returned = "none",
                                       !.pc = "exporting"]
                  ELSE [manager EXCEPT !.calls = @ + 1, !.returned = "True"]
    /\ UNCHANGED <<ingestVars, walkVars>>

\* _export_ae_project, and the return of False when it failed; export_time is
\* the time of the call
ExportAeProject ==
    /\ manager.pc = "exporting"
    /\ \E raised \in BOOLEAN :
          manager' = IF raised
                     THEN [manager EXCEPT !.returned = "False", !.pc = "idle"]
                     ELSE [manager EXCEPT !.current_project_graph = <<manager.calls>>,
                                          !.exported = TRUE, !.pc = "ingesting"]
    /\ UNCHANGED <<ingestVars, walkVars>>

\* _ingest_project_graph and the rest of _update_project_graph: False when the
\* try block of the ingestion raised, else last_export_time is set and True
IngestProjectGraph ==
    /\ manager.pc = "ingesting"
    /\ \E raised \in BOOLEAN :
          manager' = IF raised
                     THEN [manager EXCEPT !.returned = "False", !.pc = "idle"]
                     ELSE [manager EXCEPT !.last_export_time = <<manager.calls>>,
                                          !.ingested = TRUE, !.returned = "True",
                                          !.pc = "idle"]
    /\ UNCHANGED <<ingestVars, walkVars>>

\* get_context_summary
GetContextSummary ==
    /\ manager.pc = "idle"
    /\ manager' = [manager EXCEPT !.summary = IF manager.current_project_graph = <<>>
                                              THEN "no_graph" ELSE "ready"]
    /\ UNCHANGED <<ingestVars, walkVars>>

InitContext == InitWalk

NextContext ==
    \/ EnsureProjectGraphCurrent
    \/ ExportAeProject
    \/ IngestProjectGraph
    \/ GetContextSummary

SpecContext == InitContext /\ [][NextContext]_vars

-----------------------------------------------------------------------------
(* Properties *)

\* the positions in `calls` of the calls of kind o (node or edge) issued by run r
CallsOf(r, o) == {i \in DOMAIN calls : calls[i].run = r /\ calls[i].op = o}

\* the create-node calls a run over the current input has to issue
NodeCallsExpected ==
    CASE mode = "ingest_project" ->
             Cardinality({k \in DOMAIN file.data.nodes :
                             file.data.nodes[k].id # NoKey /\ file.data.nodes[k].type # NoKey})
      [] mode = "upload_graph" ->
             Cardinality({k \in DOMAIN file.data.nodes : Endpoint(file.data.nodes[k]) # NoKey})
      [] mode = "ingest_project_graph" ->
             1 + Len(file.data.items)
               + Cardinality({kl \in (DOMAIN file.data.items) \X (1..(MaxLayers + 1)) :
                                 kl[2] <= Len(file.data.items[kl[1]].layers)})

(* C1: in every ingestion run the node phase strictly precedes the edge     *)
(* phase: within a run no create-node call follows a create-edge call, and  *)
(* when a run has issued a create-edge call it has issued every one of its  *)
(* create-node calls.                                                       *)
C1_NodePhasePrecedesEdgePhase ==
    /\ \A i, j \in DOMAIN calls :
          (i < j /\ calls[i].run = calls[j].run /\ calls[i].op = "edge") => calls[j].op = "edge"
    /\ CallsOf(runs, "edge") # {} => Cardinality(CallsOf(runs, "node")) = NodeCallsExpected

C1_Witness ==
    \E i, j \in DOMAIN calls :
        i < j /\ calls[i].run = calls[j].run /\ calls[i].op = "node" /\ calls[j].op = "edge"

\* the ids the node phase of run r resolved: the ids of the nodes it created, or for
\* upload_graph the uuids of external_to_uuid
ResolvedIds(r) ==
    IF mode = "upload_graph"
    THEN {external_to_uuid[k] : k \in DOMAIN external_to_uuid}
    ELSE {calls[i].id : i \in {k \in CallsOf(r, "node") : calls[k].ok}}

(* C2: no create-edge call is made for an edge whose from or to id was not  *)
(* resolved by the node phase of its run.                                   *)
C2_NoEdgeWithUnresolvedEndpoint ==
    \A i \in DOMAIN calls :
        calls[i].op = "edge" =>
            calls[i].from \in ResolvedIds(calls[i].run) /\ calls[i].to \in ResolvedIds(calls[i].run)

\* where a call of ingest_project starts: before the first call or after an earlier one
StartStates == {"Idle", "Done", "Failed"}

\* the export cannot be loaded: open or json.load raises, or success is false
LoadFails(f) == ~f.readable \/ ~f.success

\* a node record on which _compute_semantic_relationships raises KeyError
SimilarityRaisesOn(node, emap) ==
    \/ node.id = NoKey
    \/ node.type = NoKey /\ EmbedKey(node.id, "name") \in DOMAIN emap

FailingNodes(d) == {k \in DOMAIN d.nodes : d.nodes[k].id = NoKey \/ d.nodes[k].type = NoKey}

FailingEdges(d) == {k \in DOMAIN d.edges : NoKey \in {d.edges[k].from, d.edges[k].to, d.edges[k].type}}

(* C4: a failure on a single node or edge never halts the run: a first run  *)
(* whose export loaded never ends Failed, after the edge phase every record *)
(* is counted as created or as one error, and at Done the run returns its   *)
(* stats with one error per failing record.                                 *)
C4_ItemFailuresNeverHalt ==
    (mode = "ingest_project" /\ runs = 1 /\ ~LoadFails(file)) =>
        /\ pc # "Failed"
        /\ pc \in {"EdgesMaterialized", "SimilarityComputed", "Done"} =>
               /\ stats.errors = Cardinality(FailingNodes(file.data))
                                  + Cardinality(FailingEdges(file.data))
               /\ stats.nodes_created + stats.edges_created + stats.errors
                      = Len(file.data.nodes) + Len(file.data.edges)
        /\ pc = "Done" => result = Returned(stats)

DistinctIds(recs) == \A i, j \in DOMAIN recs : i # j => recs[i].id # recs[j].id

\* the document of the run is valid: every record carries its keys and ids are unique
ValidDocument ==
    CASE mode = "ingest_project" ->
             /\ FailingNodes(file.data) = {} /\ FailingEdges(file.data) = {}
             /\ DistinctIds(file.data.nodes)
      [] mode = "upload_graph" ->
             FailingEdges(file.data) = {} /\ DistinctIds(file.data.nodes)
      [] mode = "ingest_project_graph" -> DistinctIds(file.data.items)

\* the store accepted every call of the run and returned an id for every node
HealthyStore ==
    /\ \A i \in DOMAIN calls : calls[i].ok
    /\ mode = "upload_graph" =>
           \A i \in CallsOf(runs, "node") : calls[i].id \in DOMAIN external_to_uuid

\* the nodes of the document, its Project root among them
DocumentNodes ==
    IF mode = "ingest_project_graph" THEN NodeCallsExpected ELSE Len(file.data.nodes)

\* the layers of a project_graph document that name an item of the document as source
SourceReferences(d) ==
    {kl \in (DOMAIN d.items) \X (1..(MaxLayers + 1)) :
        /\ kl[2] <= Len(d.items[kl[1]].layers)
        /\ d.items[kl[1]].layers[kl[2]].source_id # <<>>
        /\ \E m \in DOMAIN d.items : d.items[m].id = d.items[kl[1]].layers[kl[2]].source_id[1]}

\* the usedIn entries of the compositions that name an item of the document
DependencyReferences(d) ==
    {ku \in (DOMAIN d.items) \X (1..(MaxItems + 1)) :
        /\ d.items[ku[1]].type = "Composition"
        /\ ku[2] <= Len(d.items[ku[1]].usedIn)
        /\ \E m \in DOMAIN d.items : d.items[m].id = d.items[ku[1]].usedIn[ku[2]]}

\* the edges of the document whose two endpoints are nodes of the document
ResolvableEdges ==
    IF mode = "ingest_project_graph"
    THEN NodeCallsExpected - 1 + Cardinality(SourceReferences(file.data))
                               + Cardinality(DependencyReferences(file.data))
    ELSE Cardinality({k \in DOMAIN file.data.edges :
                         \E m, n \in DOMAIN file.data.nodes :
                             /\ file.data.nodes[m].id = file.data.edges[k].from
                             /\ file.data.nodes[n].id = file.data.edges[k].to})

(* C6: a finished run over a valid document with N non-root entities and E  *)
(* edges whose endpoints both resolve, against a store that accepts every   *)
(* call, has created exactly N+1 nodes and at least E edges.                *)
C6_NodesAndEdgesOfValidDocument ==
    (pc = "Done" /\ ValidDocument /\ HealthyStore) =>
        /\ Cardinality(CallsOf(runs, "node")) = DocumentNodes
        /\ Cardinality(CallsOf(runs, "edge")) >= ResolvableEdges

\* the input edges with an endpoint that is not a node the run created
UnresolvedEdges ==
    {k \in DOMAIN file.data.edges :
        \/ file.data.edges[k].from = NoKey
        \/ file.data.edges[k].to = NoKey
        \/ IF mode = "upload_graph"
           THEN ~({file.data.edges[k].from, file.data.edges[k].to} \subseteq DOMAIN external_to_uuid)
           ELSE ~({file.data.edges[k].from, file.data.edges[k].to} \subseteq ResolvedIds(runs))}

\* the create-edge calls of the run that materialize input edges
InputEdgeCalls == {i \in CallsOf(runs, "edge") : calls[i].kind # "similar_name"}

(* C7: at the end of a first run against a store that accepts every call,   *)
(* the response carries an errors count whose edge part (errors less the    *)
(* failing node records) equals the number of input edges with an           *)
(* unresolved endpoint, and edges created plus edges skipped equals the     *)
(* number of input edges.                                                   *)
C7_SkippedEdgesAreTheEdgeErrors ==
    (mode \in {"ingest_project", "upload_graph"} /\ pc = "Done" /\ runs = 1 /\ HealthyStore) =>
        /\ "errors" \in DOMAIN result.stats
        /\ result.stats.errors - Cardinality(FailingNodes(file.data))
              = Cardinality(UnresolvedEdges)
        /\ Cardinality(InputEdgeCalls) + Cardinality(UnresolvedEdges) = Len(file.data.edges)

\* the eligible classes of types
SameClass(t1, t2) ==
    \/ t1 = t2
    \/ {t1, t2} \subseteq {"AVLayer", "TextLayer", "ShapeLayer", "CameraLayer", "LightLayer"}
    \/ {t1, t2} \subseteq {"Property", "PropertyGroup"}

\* the positions in `calls` of the similarity edges
SimilarityCalls == {i \in DOMAIN calls : calls[i].op = "edge" /\ calls[i].kind = "similar_name"}

(* C8: every similarity edge joins two node records of the input, the       *)
(* first before the second in the node list, whose types are in the same    *)
(* eligible class.                                                          *)
C8_SimilarityOnlyWithinClass ==
    \A i \in SimilarityCalls :
        \E m, n \in DOMAIN file.data.nodes :
            /\ m < n
            /\ file.data.nodes[m].id = calls[i].from
            /\ file.data.nodes[n].id = calls[i].to
            /\ SameClass(file.data.nodes[m].type, file.data.nodes[n].type)

C8_Witness ==
    /\ pc = "SimilarityComputed"
    /\ \E m, n \in DOMAIN file.data.nodes :
          /\ file.data.nodes[m].id # file.data.nodes[n].id
          /\ ~SameClass(file.data.nodes[m].type, file.data.nodes[n].type)
          /\ {EmbedKey(file.data.nodes[m].id, "name"), EmbedKey(file.data.nodes[n].id, "name")}
                \subseteq DOMAIN embeddings_map
          /\ Exceeds(CosineSimilarity(embeddings_map[EmbedKey(file.data.nodes[m].id, "name")],
                                      embeddings_map[EmbedKey(file.data.nodes[n].id, "name")]),
                     similarity_threshold)
    /\ SimilarityCalls = {}

Thresholds == 0..10

\* the similarity edges _compute_semantic_relationships creates at threshold t over the
\* input of the run, with the pairs they link
LinkedAt(t) ==
    LET log == ComputeSemanticRelationships(file.data.nodes, embeddings_map, t, runs).log
    IN  [threshold |-> t, edges |-> Len(log),
         pairs |-> {<<log[i].from, log[i].to>> : i \in DOMAIN log}]

(* C10: for the nodes and embeddings of a run, the pairs linked at a        *)
(* threshold t2 are a subset of the pairs linked at any t1 <= t2 and the    *)
(* number of similarity edges at t2 is no greater; the edges the run        *)
(* created are the ones linked at its threshold.                            *)
C10_ThresholdMonotone ==
    pc \in {"SimilarityComputed", "Done"} =>
        LET linked == {LinkedAt(t) : t \in Thresholds}
        IN  /\ \A l1, l2 \in linked :
                  l1.threshold <= l2.threshold =>
                      (l2.pairs \subseteq l1.pairs /\ l2.edges <= l1.edges)
            /\ \E l \in linked :
                  /\ l.threshold = similarity_threshold
                  /\ l.pairs = {<<calls[i].from, calls[i].to>> : i \in SimilarityCalls}
                  /\ l.edges = Cardinality(SimilarityCalls)

C10_Witness ==
    /\ pc = "SimilarityComputed"
    /\ SimilarityCalls # {}
    /\ \E t \in Thresholds :
          t > similarity_threshold /\ LinkedAt(t).edges < LinkedAt(similarity_threshold).edges

\* the positions of the node list that carry a name embedding
Embedded == {k \in DOMAIN file.data.nodes :
                EmbedKey(file.data.nodes[k].id, "name") \in DOMAIN embeddings_map}

NameEmbedding(k) == embeddings_map[EmbedKey(file.data.nodes[k].id, "name")]

\* dot(a,b) / (|a| |b|) is strictly greater than t tenths; a zero norm makes it 0
StrictlySimilar(a, b, t) ==
    /\ Dot(a, a) > 0 /\ Dot(b, b) > 0
    /\ Dot(a, b) > 0
    /\ 100 * Dot(a, b) * Dot(a, b) > t * t * Dot(a, a) * Dot(b, b)

\* the pairs of embedded nodes (by position, first before second) with the ids x and y
\* that are in the same eligible class and strictly more similar than the threshold
PairsToLink(x, y) ==
    {mn \in Embedded \X Embedded :
        /\ mn[1] < mn[2]
        /\ file.data.nodes[mn[1]].id = x /\ file.data.nodes[mn[2]].id = y
        /\ SameClass(file.data.nodes[mn[1]].type, file.data.nodes[mn[2]].type)
        /\ StrictlySimilar(NameEmbedding(mn[1]), NameEmbedding(mn[2]), similarity_threshold)}

(* C11: after similarity computation, each pair of embedded nodes in the    *)
(* same eligible class has exactly one similar_name edge if its cosine      *)
(* similarity is strictly greater than 0.7 and none otherwise (none at      *)
(* exactly 0.7, none with a zero-norm vector), and every such edge carries  *)
(* the similarity of a pair it links as similarity_score.                   *)
C11_EdgeIffStrictlyAboveThreshold ==
    pc \in {"SimilarityComputed", "Done"} =>
        /\ \A x, y \in {"a", "b"} :
              Cardinality({i \in SimilarityCalls : calls[i].from = x /\ calls[i].to = y})
                 = Cardinality(PairsToLink(x, y))
        /\ \A i \in SimilarityCalls :
              \E mn \in PairsToLink(calls[i].from, calls[i].to) :
                  calls[i].props.similarity_score
                     = [dot |-> Dot(NameEmbedding(mn[1]), NameEmbedding(mn[2])),
                        nsq |-> Dot(NameEmbedding(mn[1]), NameEmbedding(mn[1]))
                                  * Dot(NameEmbedding(mn[2]), NameEmbedding(mn[2]))]

\* a pair whose similarity is exactly 0.7, and no edge
C11_Witness ==
    /\ pc = "SimilarityComputed"
    /\ \E m, n \in Embedded :
          /\ m < n
          /\ SameClass(file.data.nodes[m].type, file.data.nodes[n].type)
          /\ Dot(NameEmbedding(m), NameEmbedding(n)) > 0
          /\ 100 * Dot(NameEmbedding(m), NameEmbedding(n)) * Dot(NameEmbedding(m), NameEmbedding(n))
                = similarity_threshold * similarity_threshold
                    * Dot(NameEmbedding(m), NameEmbedding(m)) * Dot(NameEmbedding(n), NameEmbedding(n))
          /\ SimilarityCalls = {}

\* the entries of embedding_content that carry every key _generate_embeddings reads
EmbeddableContent(d) ==
    {k \in DOMAIN d.embedding_content :
        NoKey \notin {d.embedding_content[k].id, d.embedding_content[k].field,
                      d.embedding_content[k].content}}

\* the phases of ingest_project that follow the embedding phase
AfterEmbeddings ==
    {"EmbeddingsComputed", "NodesMaterialized", "EdgesMaterialized", "SimilarityComputed", "Done"}

(* C12: a failure to embed one item drops only that item's vector: once the *)
(* embedding phase is over, every other item of embedding_content has its   *)
(* vector in the embeddings map, and every node created for an id with such *)
(* an item carries its embedding.                                           *)
C12_EmbeddingFailureDropsOneVector ==
    (mode = "ingest_project" /\ pc \in AfterEmbeddings) =>
        /\ \A k \in EmbeddableContent(file.data) :
              EmbedKey(file.data.embedding_content[k].id, file.data.embedding_content[k].field)
                 \in DOMAIN embeddings_map
        /\ \A i \in CallsOf(runs, "node") :
              (\E k \in EmbeddableContent(file.data) :
                   file.data.embedding_content[k].id = calls[i].id) => calls[i].embedding

\* the (node id, field) keys of the entries of embedding_content
ContentKeys(d) ==
    {EmbedKey(d.embedding_content[k].id, d.embedding_content[k].field) :
        k \in EmbeddableContent(d)}

(* C13: within one process the embedding computation is invoked at most     *)
(* once per (node id, field): over all the runs of an instance on its       *)
(* export, the number of embeddings generated never exceeds the number of   *)
(* distinct keys of embedding_content.                                      *)
C13_EmbeddedAtMostOncePerKey ==
    mode = "ingest_project" =>
        stats.embeddings_generated <= Cardinality(ContentKeys(file.data))

\* the ids of the entities of the document whose kind the entry point has no type for
UnknownKindIds ==
    CASE mode = "ingest_project" ->
             {file.data.nodes[k].id : k \in {n \in DOMAIN file.data.nodes :
                 /\ file.data.nodes[n].id # NoKey /\ file.data.nodes[n].type # NoKey
                 /\ file.data.nodes[n].type \notin DOMAIN node_types}}
      [] mode = "upload_graph" ->
             {file.data.nodes[k].id : k \in {n \in DOMAIN file.data.nodes :
                 Endpoint(file.data.nodes[n]) = NoKey}}
      [] mode = "ingest_project_graph" ->
             {ItemId(file.data.items[k].id) : k \in {n \in DOMAIN file.data.items :
                 file.data.items[n].type \notin {"Composition", "FootageItem"}}}

\* the node types an entry point gives to an entity of a kind it does not know
GenericKinds == {"ae_unknown", "AddN<Item>", "AddN<Layer>"}

(* C14: once the node phase of a run is over, every entity of the document  *)
(* whose kind is not known has been materialized as a node of the generic   *)
(* type: a create-node call of the run carries its id and a generic type.   *)
C14_UnknownKindMaterialized ==
    pc \in {"NodesMaterialized", "EdgesMaterialized", "SimilarityComputed", "Done"} =>
        \A id \in UnknownKindIds :
            \E i \in CallsOf(runs, "node") : calls[i].id = id /\ calls[i].kind \in GenericKinds

\* the containment edges the store holds: <<parent, child>> of every accepted call that
\* created a contains edge
ContainsEdges ==
    {<<calls[i].from, calls[i].to>> :
        i \in {k \in DOMAIN calls :
                  /\ calls[k].op = "edge" /\ calls[k].ok
                  /\ calls[k].kind \in {"contains", "/AddContainsEdge", "AddE<CONTAINS>"}}}

\* the pairs joined by an edge of P followed by an edge of R
Compose(P, R) == {<<pq[1][1], pq[2][2]>> : pq \in {x \in P \X R : x[1][2] = x[2][1]}}

\* the pairs joined by a path of n or fewer edges of R
RECURSIVE PathsUpTo(_, _)
PathsUpTo(R, n) ==
    IF n <= 1 THEN R
    ELSE LET P == PathsUpTo(R, n - 1) IN P \cup Compose(P, R)

(* C15: the CONTAINS edges in the store form a forest: no node has two      *)
(* CONTAINS parents and no path of CONTAINS edges leads from a node back to *)
(* itself, whatever the types of the edges of the document.                 *)
C15_ContainsEdgesFormForest ==
    /\ \A e1, e2 \in ContainsEdges : e1[2] = e2[2] => e1[1] = e2[1]
    /\ \A p \in PathsUpTo(ContainsEdges, Cardinality(ContainsEdges)) : p[1] # p[2]

\* the positions in `calls` of the create-node calls the store accepted, over all runs
NodesInStore == {i \in DOMAIN calls : calls[i].op = "node" /\ calls[i].ok}

(* C16: node ids are unique in the store after any sequence of runs: no two *)
(* accepted create-node calls carry the same id, be it from one document    *)
(* that lists the id twice or from a second run over the same document.     *)
C16_NodeIdsUnique ==
    \A i, j \in NodesInStore : calls[i].id = calls[j].id => i = j

\* test_project: Composition 1 with a TextLayer and an AVLayer whose source is FootageItem 2
ExampleDocument ==
    ProjectDocument(<< [id |-> 1, type |-> "Composition", usedIn |-> <<>>],
                       [id |-> 2, type |-> "FootageItem", usedIn |-> <<>>] >>,
                    1,
                    << [type |-> "TextLayer", source_id |-> <<>>],
                       [type |-> "AVLayer", source_id |-> <<2>>] >>)

ExampleIngested ==
    mode = "ingest_project_graph" /\ pc = "Done" /\ file.data = ExampleDocument

\* the nodes and the edges in the store, as <<type, id>> and <<type, from, to>>
NodesCreated == {<<calls[i].kind, calls[i].id>> : i \in CallsOf(runs, "node")}

EdgesCreated == {<<calls[i].kind, calls[i].from, calls[i].to>> : i \in CallsOf(runs, "edge")}

ExampleNodes ==
    { <<"AddN<Project>", "project_root">>, <<"AddN<Composition>", "item_1">>,
      <<"AddN<TextLayer>", "item_1_layer_0">>, <<"AddN<AVLayer>", "item_1_layer_1">>,
      <<"AddN<FootageItem>", "item_2">> }

ExampleEdgesAsStated ==
    { <<"AddE<CONTAINS>", "project_root", "item_1">>,
      <<"AddE<CONTAINS>", "item_1", "item_1_layer_0">>,
      <<"AddE<CONTAINS>", "item_1", "item_1_layer_1">>,
      <<"AddE<USES>", "item_1_layer_1", "item_2">> }

StartInGraph == \E i \in NodesInStore : calls[i].id = reply.id

(* C18: every traversal called with a start id that is not in the graph     *)
(* returns an explicit NotFound result, and no traversal propagates an      *)
(* exception: every call, also one on which the store fails, returns a      *)
(* result document (the error document of a call on which the store failed  *)
(* is taken to be in order also when the start id is missing).              *)
C18_MissingStartIsNotFound ==
    reply.tool # "none" =>
        /\ reply.kind # "raised"
        /\ (~StartInGraph /\ reply.kind # "error" => reply.kind = "NotFound")


\* the directions the docstring of walk_dependencies and the comment of
\* WalkDependencies name
AcceptedDirections(tool) ==
    IF tool = "walker.walk_dependencies" THEN {"incoming", "outgoing", "both"}
    ELSE IF tool = "helix.walk_dependencies" THEN {"inbound", "outbound", "both"}
    ELSE {"none"}

\* the latest traversal was called with a direction outside the accepted set
\* or with a negative depth
InvalidArguments ==
    \/ reply.direction \notin AcceptedDirections(reply.tool)
    \/ reply.depth < 0

(* C19: a traversal called with an invalid direction or a negative depth    *)
(* returns an InvalidArgument result, never an empty or partial success     *)
(* result (a call on which the store failed may return its error document). *)
C19_InvalidArgumentReported ==
    (reply.tool # "none" /\ InvalidArguments /\ reply.kind # "error")
        => reply.kind = "InvalidArgument"


\* the logical query of caller c is under way: it holds a session and has not
\* read its result yet
UnderWay(c) == callers[c].pc \in {"connected", "stepped"}

\* c and d are two callers that name different session ids in their requests
DistinctSessions(c, d) == c # d /\ callers[c].session_id # callers[d].session_id

(* C20: no two concurrent logical queries operate on the same store         *)
(* session: callers that name distinct session ids and whose queries are    *)
(* under way at the same time use distinct store sessions, and the result   *)
(* set such a caller reads is never one that the step of a caller with      *)
(* another session id produced.                                             *)
C20_NoSharedStoreSession ==
    /\ \A c, d \in Callers :
          (DistinctSessions(c, d) /\ UnderWay(c) /\ UnderWay(d))
              => callers[c].store_session # callers[d].store_session
    /\ \A c, d \in Callers :
          (DistinctSessions(c, d) /\ callers[c].pc = "read") => callers[c].read # d


\* the tools of mcp_ae_graph_walker, which query the store through get_connection
WalkerTools ==
    {"walker.walk_composition_hierarchy", "walker.walk_dependencies",
     "walker.trace_render_path"}

\* the latest traversal failed on a session that the walker still keeps
FailedOnSession ==
    /\ reply.tool \in WalkerTools
    /\ reply.kind = "error"
    /\ current_connection_id # NoConnection

(* C21: after a traversal fails on a session that session is abandoned: the *)
(* next traversal of the walker runs on a session other than the failed     *)
(* one, and no session id is kept between queries.                          *)
C21_FailedSessionAbandoned ==
    [][(FailedOnSession /\ reply'.tool \in WalkerTools)
          => current_connection_id' # current_connection_id]_vars


\* the latest call was walk_composition_hierarchy of the walker, with a depth
\* that is not negative, and it returned its hierarchy
HierarchyReturned ==
    /\ reply.tool = "walker.walk_composition_hierarchy"
    /\ reply.kind = "result"
    /\ reply.depth >= 0

(* C22: walk_composition_hierarchy reports no node twice and never descends *)
(* past the requested depth: layers are reported only when depth >= 1,      *)
(* property groups only when depth >= 2, keyframes only when depth >= 3.    *)
C22_HierarchyWithinDepth ==
    HierarchyReturned =>
        /\ \A i, j \in DOMAIN reply.layers :
              reply.layers[i].id = reply.layers[j].id => i = j
        /\ (reply.layers # <<>> => reply.depth >= 1)
        /\ \A i \in DOMAIN reply.layers :
              /\ reply.layers[i].property_groups => reply.depth >= 2
              /\ reply.layers[i].keyframes => reply.depth >= 3


\* ingest_project_graph has returned for the current document
NativeIngested == mode = "ingest_project_graph" /\ pc = "Done"

\* the ids of the items of the current document
DocumentItemIds == {file.data.items[k].id : k \in DOMAIN file.data.items}

\* the USES edges the latest run created from the i-th layer of the k-th item
\* to the item with the given id
SourceEdges(k, i, id) ==
    {c \in CallsOf(runs, "edge") :
        /\ calls[c].kind = "AddE<USES>"
        /\ calls[c].from = LayerId(ItemId(file.data.items[k].id), i - 1)
        /\ calls[c].to = ItemId(id)}

(* C23: for every layer that declares a source reference to an item of the *)
(* document exactly one USES edge leads from the layer to that item,        *)
(* whatever the id of the item and wherever it stands in the document, and  *)
(* no edge is emitted when the referenced item is not in the document.      *)
C23_OneSourceEdgePerReference ==
    NativeIngested =>
        \A k \in DOMAIN file.data.items :
            \A i \in DOMAIN file.data.items[k].layers :
                LET source_id == file.data.items[k].layers[i].source_id
                IN  source_id # <<>> =>
                        Cardinality(SourceEdges(k, i, source_id[1])) =
                            IF source_id[1] \in DocumentItemIds THEN 1 ELSE 0


(* The properties of the node operations of AddProjectNodes.query. A value  *)
(* v is written <<v>> and Python's None is written <<>>. The documents of   *)
(* the model carry id, type, usedIn and layers for an item and type and     *)
(* source_id for a layer; every other field is one the source omits.        *)
ItemProperties(item) ==
    IF item.type = "Composition"
    THEN [operation |-> "AddN<Composition>",
          properties |-> [id |-> <<ItemId(item.id)>>, name |-> <<"Unnamed Composition">>,
                          duration |-> <<0>>, frameRate |-> <<30>>, width |-> <<1920>>,
                          height |-> <<1080>>, layerCount |-> <<Len(item.layers)>>]]
    ELSE IF item.type = "FootageItem"
    THEN [operation |-> "AddN<FootageItem>",
          properties |-> [id |-> <<ItemId(item.id)>>, name |-> <<"Unnamed Footage">>,
                          file |-> <<"">>, duration |-> <<0>>, width |-> <<0>>,
                          height |-> <<0>>]]
    ELSE [operation |-> "AddN<Item>",
          properties |-> [id |-> <<ItemId(item.id)>>, name |-> <<"Unnamed Item">>,
                          type |-> <<item.type>>]]

\* the properties of the node of the layer with index i (from 0) of an item
LayerProperties(item_id, layer, i) ==
    IF layer.type = "TextLayer"
    THEN [operation |-> "AddN<TextLayer>",
          properties |-> [id |-> <<LayerId(item_id, i)>>,
                          name |-> <<"Text Layer " \o ToString(i)>>, index |-> <<i>>,
                          text |-> <<"">>, fontSize |-> <<12>>, fontFamily |-> <<"Arial">>]]
    ELSE IF layer.type = "AVLayer"
    THEN [operation |-> "AddN<AVLayer>",
          properties |-> [id |-> <<LayerId(item_id, i)>>,
                          name |-> <<"AV Layer " \o ToString(i)>>, index |-> <<i>>,
                          source_id |-> layer.source_id, enabled |-> <<TRUE>>,
                          inPoint |-> <<0>>, outPoint |-> <<0>>]]
    ELSE [operation |-> "AddN<Layer>",
          properties |-> [id |-> <<LayerId(item_id, i)>>,
                          name |-> <<"Layer " \o ToString(i)>>, index |-> <<i>>,
                          type |-> <<IF layer.type = NoKey THEN "Layer" ELSE layer.type>>]]

\* the properties of the project root; the documents of the model have no "project" key
ProjectProperties ==
    [operation |-> "AddN<Project>",
     properties |-> [id |-> <<"project_root">>, name |-> <<"Untitled Project">>,
                     duration |-> <<0>>, frameRate |-> <<30>>, width |-> <<1920>>,
                     height |-> <<1080>>]]

\* the node records AddProjectNodes.query emits for a document
NodeRecords(project_data) ==
    {ProjectProperties}
    \cup {ItemProperties(project_data.items[k]) : k \in DOMAIN project_data.items}
    \cup UNION {{LayerProperties(ItemId(project_data.items[k].id),
                                 project_data.items[k].layers[i], i - 1) :
                    i \in DOMAIN project_data.items[k].layers} :
                k \in DOMAIN project_data.items}

\* CREATE_SCHEMA: the attributes each node type requires
RequiredAttributes(operation) ==
    CASE operation = "AddN<Project>" -> {"name", "duration", "frameRate", "width", "height"}
      [] operation = "AddN<Composition>" ->
            {"name", "duration", "frameRate", "width", "height", "layerCount"}
      [] operation = "AddN<TextLayer>" -> {"name", "index", "text", "fontSize", "fontFamily"}
      [] operation = "AddN<AVLayer>" ->
            {"name", "index", "source_id", "enabled", "inPoint", "outPoint"}
      [] operation = "AddN<FootageItem>" -> {"name", "file", "duration", "width", "height"}
      [] OTHER -> {}


\* AddProjectNodes has emitted the node records of the current document
NativeNodesEmitted ==
    mode = "ingest_project_graph" /\ pc \in {"NodesMaterialized", "Done"}

(* C24: every node record the mapper emits carries a value other than null *)
(* for every attribute its node type requires, whichever fields the source *)
(* document omits.                                                         *)
C24_RequiredAttributesFilled ==
    NativeNodesEmitted =>
        \A node \in NodeRecords(file.data) :
            \A attribute \in RequiredAttributes(node.operation) :
                node.properties[attribute] # <<>>


\* ingest_project has returned its GraphStats
IngestProjectReturned == mode = "ingest_project" /\ pc = "Done" /\ result.status = "returned"

(* C25: the GraphStats ingest_project returns describes the run that        *)
(* returned it: its nodes_created and edges_created are the numbers of      *)
(* nodes and edges of its document that run created, also when it is the    *)
(* second run on the same instance.                                         *)
C25_StatsOfThisRunOnly ==
    IngestProjectReturned =>
        /\ result.stats.nodes_created = Cardinality(CallsOf(runs, "node"))
        /\ result.stats.edges_created = Cardinality(InputEdgeCalls)


FirstEmbeddingsReturned ==
    mode = "ingest_project" /\ pc = "EmbeddingsComputed" /\ runs = 1

(* C27: when _generate_embeddings returns, stats.embeddings_generated has   *)
(* grown by exactly the number of entries of the map it returned, for       *)
(* every embedding_content list, also one with a repeated (id, field) entry *)
(* or a failing entry.                                                      *)
C27_EmbeddingsCountedAreReturned ==
    FirstEmbeddingsReturned =>
        stats.embeddings_generated = Cardinality(DOMAIN embeddings_map)


(* C28: the nodes_created and edges_created that ingest_project_graph       *)
(* reports equal the number of node operations AddProjectNodes emitted and  *)
(* the number of edge operations AddProjectEdges emitted for the document.  *)
C28_NativeStatsCountOperations ==
    NativeIngested =>
        /\ result.stats.nodes_created = Cardinality(CallsOf(runs, "node"))
        /\ result.stats.edges_created = Cardinality(CallsOf(runs, "edge"))


\* what a step of ingest_project added to a counter of stats
Added(counter) == stats'[counter] - stats[counter]

\* the step is the node phase, or the edge phase, of ingest_project
NodePhaseStep ==
    mode = "ingest_project" /\ pc = "EmbeddingsComputed" /\ pc' = "NodesMaterialized"

EdgePhaseStep ==
    mode = "ingest_project" /\ pc = "NodesMaterialized" /\ pc' = "EdgesMaterialized"

(* C29: _ingest_nodes and _ingest_edges count every input record exactly    *)
(* once, as created or as an error: the node phase adds to nodes_created    *)
(* and errors together the number of input nodes, the edge phase adds to    *)
(* edges_created and errors together the number of input edges, and each    *)
(* phase issues as many calls as it counts as created.                      *)
C29_EveryRecordCountedOnce ==
    [][/\ NodePhaseStep =>
            /\ Added("nodes_created") + Added("errors") = Len(file.data.nodes)
            /\ Added("nodes_created") = Len(calls') - Len(calls)
            /\ Added("edges_created") = 0
       /\ EdgePhaseStep =>
            /\ Added("edges_created") + Added("errors") = Len(file.data.edges)
            /\ Added("edges_created") = Len(calls') - Len(calls)
            /\ Added("nodes_created") = 0]_vars

\* a first run that passed both phases with a node created, an edge among the
\* input, and a record that failed
C29_Witness ==
    /\ mode = "ingest_project"
    /\ pc = "EdgesMaterialized"
    /\ stats.nodes_created >= 1
    /\ stats.errors >= 1
    /\ Len(file.data.edges) >= 1

\* the latest request was an operation on a session
SessionOperationAnswered == reply.tool \in SessionOperations

(* C30: an operation on a session (/schema, /next, /out_step, /in_step,     *)
(* /nodes_by_type, /edges_by_type, /filter_items, /upload_graph) named for  *)
(* a session id on which /init has not succeeded before is answered with    *)
(* 'No connection found' and makes no call on the store: it issues no       *)
(* query, posts nothing and leaves every result set as it was. An operation *)
(* reaches the store only for a session id that /init has registered.       *)
C30_NoOperationWithoutInit ==
    [][ reply'.tool \in SessionOperations
          => /\ reply'.id \notin connections
                  => /\ reply'.kind = "No connection found"
                     /\ reply'.queries = <<>>
                     /\ calls' = calls
                     /\ result_sets' = result_sets
             /\ (reply'.queries # <<>> \/ calls' # calls \/ result_sets' # result_sets)
                  => reply'.id \in connections ]_vars

\* an operation was refused for a session id that holds no client, while
\* another session id holds one
C30_Witness ==
    /\ SessionOperationAnswered
    /\ reply.kind = "No connection found"
    /\ reply.id \notin connections
    /\ connections # {}

====
